---------------------------- MODULE Spec2Model ----------------------------
(* A model of the traversal / filter / sort / aggregate engine of the tree   *)
(* package: src/src/tree/tree1.py and src/src/tree/gnu/strverscmp.py.        *)
(*                                                                           *)
(* Strings are sequences of code points (naturals), so that ordering, case   *)
(* folding and digit tests are computed and not assumed.  A node is a record *)
(* shaped like the dict the code builds; a bare error payload is a record    *)
(* without a "type" field, exactly as err_dict() builds it.                  *)
EXTENDS Integers, Sequences, FiniteSets, TLC

VARIABLES fs, ns, paths, pc, i, nodes, visited, listed, raised,
          s1, s2, item, tree_list, res

vars == <<fs, ns, paths, pc, i, nodes, visited, listed, raised,
          s1, s2, item, tree_list, res>>

-----------------------------------------------------------------------------
(* Bounds of the model.                                                      *)

MaxL == 2
MaxLimit == 2
MaxRoots == 1
MaxFaults == 1
MaxLen == 3
MaxSiblings == 3

-----------------------------------------------------------------------------
(* Code points and string helpers.                                           *)

IsDigit(c) == c >= 48 /\ c <= 57

IsUpper(c) == c >= 65 /\ c <= 90

LowerChar(c) == IF IsUpper(c) THEN c + 32 ELSE c

Lower(s) == [k \in 1..Len(s) |-> LowerChar(s[k])]

Min(a, b) == IF a < b THEN a ELSE b

\* Python's str < str: the first differing code point decides, a proper
\* prefix is smaller.
StrLess(a, b) ==
    \E k \in 1..(Min(Len(a), Len(b)) + 1) :
        /\ \A j \in 1..(k - 1) : a[j] = b[j]
        /\ \/ k = Len(a) + 1 /\ k <= Len(b)
           \/ k <= Len(a) /\ k <= Len(b) /\ a[k] < b[k]

StartsWith(s, p) == Len(s) >= Len(p) /\ SubSeq(s, 1, Len(p)) = p

\* re.search with a pattern of literal characters: a substring search.
Search(p, s) == \E k \in 0..(Len(s) - Len(p)) : SubSeq(s, k + 1, k + Len(p)) = p

-----------------------------------------------------------------------------
(* The filesystem the walk runs on: a fixed directory tree, with the paths   *)
(* whose stat() or iterdir() raises OSError chosen per run.                  *)
(*                                                                           *)
(*   r/            (1)                                                       *)
(*     B           (2)   file                                                *)
(*     a/          (3)                                                       *)
(*       .h        (4)   file, hidden                                        *)
(*       a2        (6)   file                                                *)
(*       c/        (7)                                                       *)
(*         d       (8)   file                                                *)
(*         e/      (9)   empty directory                                     *)
(*   zz            (10)  a path that does not exist                          *)
(*                                                                           *)
(* Path 5 is a file a10 outside the tree, a sibling of a2 for sort_tree;     *)
(* paths 11 and 12 carry the names "." and ".." for filter_item.             *)

PathIds == 1..12

Name(p) ==
    CASE p = 1 -> <<114>>
      [] p = 2 -> <<66>>
      [] p = 3 -> <<97>>
      [] p = 4 -> <<46, 104>>
      [] p = 5 -> <<97, 49, 48>>
      [] p = 6 -> <<97, 50>>
      [] p = 7 -> <<99>>
      [] p = 8 -> <<100>>
      [] p = 9 -> <<101>>
      [] p = 10 -> <<122, 122>>
      [] p = 11 -> <<46>>
      [] p = 12 -> <<46, 46>>

Kind(p) ==
    IF p \in {1, 3, 7, 9, 11, 12} THEN "directory"
    ELSE IF p = 10 THEN "missing" ELSE "file"

Parent(p) ==
    CASE p \in {2, 3} -> 1
      [] p \in {4, 6, 7} -> 3
      [] p \in {8, 9} -> 7
      [] OTHER -> 0

Mtime(p) == <<5, 3, 7, 2, 9, 4, 6, 1, 8, 0, 0, 0>>[p]

Ctime(p) == <<2, 8, 1, 6, 3, 9, 4, 7, 5, 0, 0, 0>>[p]

Size(p) == <<40, 7, 30, 40, 12, 12, 40, 3, 40, 0, 0, 0>>[p]

Children(p) == {q \in PathIds : Parent(q) = p}

\* Path.is_file(): a missing path is not a file.
is_file(p) == Kind(p) = "file"

\* Path.stat() raises OSError: on a missing path always, else as chosen.
StatFails(f, p) == Kind(p) = "missing" \/ p \in f.statFail

\* Path.iterdir() raises OSError: on a missing path always, else as chosen.
ListFails(f, p) == Kind(p) = "missing" \/ p \in f.listFail


-----------------------------------------------------------------------------
(* Node constructors.                                                        *)

file_dict(path) == [type |-> "file", path |-> path]

dir_dict(path) == [type |-> "directory", path |-> path, contents |-> <<>>]

errs_dict(path) == [type |-> "link", path |-> path, contents |-> <<>>]

err_dict(err) == [error |-> err]

\* err_dict(TreeFileLimitError(count)): the payload carries the count.
limit_err_dict(count) == [error |-> "TreeFileLimitError", count |-> count]

\* A value the code returns, or the exception it raises instead.
Ok(v) == [exc |-> "none", val |-> v]

Raise(e) == [exc |-> e, val |-> <<>>]

-----------------------------------------------------------------------------
(* VisibilityFilter.                                                         *)

check_pattern(name, pattern, ignore_case) ==
    IF pattern = <<>> THEN TRUE
    ELSE IF ignore_case THEN Search(Lower(pattern), Lower(name))
    ELSE Search(pattern, name)

\* filter_item without the exemption of "." and ".." from the hidden rule.
filter_item_NoDotExemption(it, o) ==
    LET name == Name(it.path)
        should_match_pattern ==
            (it.type = "directory" /\ o.matchdirs) \/ it.type # "directory"
    IN  IF ~o.a /\ StartsWith(name, <<46>>)
        THEN FALSE
        ELSE IF o.P = <<>> /\ o.I = <<>> THEN TRUE
        ELSE IF should_match_pattern
                /\ o.I # <<>> /\ check_pattern(name, o.I, o.ignore_case)
        THEN FALSE
        ELSE IF should_match_pattern
                /\ o.P # <<>> /\ ~check_pattern(name, o.P, o.ignore_case)
        THEN FALSE
        ELSE TRUE

filter_item(it, o) ==
    LET name == Name(it.path)
        should_match_pattern ==
            (it.type = "directory" /\ o.matchdirs) \/ it.type # "directory"
    IN  IF ~o.a /\ name \notin {<<46>>, <<46, 46>>} /\ StartsWith(name, <<46>>)
        THEN FALSE
        ELSE IF o.P = <<>> /\ o.I = <<>> THEN TRUE
        ELSE IF should_match_pattern
                /\ o.I # <<>> /\ check_pattern(name, o.I, o.ignore_case)
        THEN FALSE
        ELSE IF should_match_pattern
                /\ o.P # <<>> /\ ~check_pattern(name, o.P, o.ignore_case)
        THEN FALSE
        ELSE TRUE

-----------------------------------------------------------------------------
(* Comparator.                                                               *)

\* TreeSortTypeError.possible_values
possible_values == {"name", "version", "mtime", "ctime", "size"}

\* The end of the run of digits (d = TRUE) or of non-digits that starts at k.
RunEnd(s, k, d) ==
    CHOOSE e \in k..(Len(s) + 1) :
        /\ \A j \in k..(e - 1) : IsDigit(s[j]) = d
        /\ e = Len(s) + 1 \/ IsDigit(s[e]) # d

RECURSIVE IntOf(_)
\* int(digits)
IntOf(ds) ==
    IF ds = <<>> THEN 0
    ELSE IntOf(SubSeq(ds, 1, Len(ds) - 1)) * 10 + (ds[Len(ds)] - 48)

RECURSIVE SplitFrom(_, _)
\* re.split("([0-9]+)", s) from index k on, the digit runs converted by int():
\* text, number, text, ..., text.
SplitFrom(s, k) ==
    LET e == RunEnd(s, k, FALSE)
        text == SubSeq(s, k, e - 1)
    IN  IF e > Len(s) THEN <<text>>
        ELSE LET e2 == RunEnd(s, e, TRUE)
             IN  <<text, IntOf(SubSeq(s, e, e2 - 1))>> \o SplitFrom(s, e2)

version_key(it) == SplitFrom(Lower(Name(it.path)), 1)

\* Python's list < list on two version keys: texts sit at the odd positions
\* and numbers at the even ones.
VersionKeyLess(a, b) ==
    \E k \in 1..(Min(Len(a), Len(b)) + 1) :
        /\ \A j \in 1..(k - 1) : a[j] = b[j]
        /\ \/ k = Len(a) + 1 /\ k <= Len(b)
           \/ /\ k <= Len(a) /\ k <= Len(b)
              /\ IF k % 2 = 1 THEN StrLess(a[k], b[k]) ELSE a[k] < b[k]

\* sorted(seq, key=...): a stable sort; less[j][k] tells whether the key of
\* seq[j] is smaller than the key of seq[k].
StableSort(seq, less) ==
    LET n == Len(seq)
        rank(k) == 1 + Cardinality({j \in 1..n :
                        \/ less[j][k]
                        \/ ~less[k][j] /\ j < k})
    IN  [p \in 1..n |-> seq[CHOOSE k \in 1..n : rank(k) = p]]

Reverse(seq) == [k \in 1..Len(seq) |-> seq[Len(seq) + 1 - k]]

NameLess(x, y) == StrLess(Lower(Name(x.path)), Lower(Name(y.path)))

VersionLess(x, y) == VersionKeyLess(version_key(x), version_key(y))

\* key = st_mtime, reverse=True
MtimeLess(x, y) == Mtime(x.path) > Mtime(y.path)

\* key = st_ctime, reverse=True
CtimeLess(x, y) == Ctime(x.path) > Ctime(y.path)

SizeLess(x, y) == Size(x.path) < Size(y.path)

\* dirsfirst_key ranking every node that is no directory alike.
dirsfirst_key_TwoRanks(it) == IF it.type = "directory" THEN 0 ELSE 1

dirsfirst_key(it) ==
    IF it.type = "directory" THEN 0 ELSE IF it.type = "file" THEN 1 ELSE 2

DirsFirstLess(x, y) == dirsfirst_key(x) < dirsfirst_key(y)

\* The key functions of the mtime, ctime and size strategies call stat() on
\* every item: one failing stat() raises OSError out of sorted().
KeyStatFails(f, seq) == \E k \in 1..Len(seq) : StatFails(f, seq[k].path)

\* Strategy with the version branch tried before the explicit name mode.
Strategy_VersionBeforeName(o) ==
    IF o.v \/ o.sort = "version" THEN "version"
    ELSE IF o.sort = "name" THEN "name"
    ELSE IF o.t \/ o.sort = "mtime" THEN "mtime"
    ELSE IF o.c \/ o.sort = "ctime" THEN "ctime"
    ELSE IF o.sort = "size" THEN "size"
    ELSE "name"

\* The strategy chosen by the if/elif chain of sort_tree.
Strategy(o) ==
    IF o.sort = "name" THEN "name"
    ELSE IF o.v \/ o.sort = "version" THEN "version"
    ELSE IF o.t \/ o.sort = "mtime" THEN "mtime"
    ELSE IF o.c \/ o.sort = "ctime" THEN "ctime"
    ELSE IF o.sort = "size" THEN "size"
    ELSE "name"

ApplyStrategy(st, seq) ==
    LET D == DOMAIN seq
    IN  CASE st = "name" ->
               StableSort(seq, [j \in D |-> [k \in D |-> NameLess(seq[j], seq[k])]])
          [] st = "version" ->
               StableSort(seq, [j \in D |-> [k \in D |-> VersionLess(seq[j], seq[k])]])
          [] st = "mtime" ->
               StableSort(seq, [j \in D |-> [k \in D |-> MtimeLess(seq[j], seq[k])]])
          [] st = "ctime" ->
               StableSort(seq, [j \in D |-> [k \in D |-> CtimeLess(seq[j], seq[k])]])
          [] OTHER ->
               StableSort(seq, [j \in D |-> [k \in D |-> SizeLess(seq[j], seq[k])]])

dirs_first(seq) ==
    StableSort(seq, [j \in DOMAIN seq |->
                       [k \in DOMAIN seq |-> DirsFirstLess(seq[j], seq[k])]])

sort_tree(f, seq, o) ==
    IF o.sort # "" /\ o.sort \notin possible_values THEN Raise("TreeSortTypeError")
    ELSE IF o.U THEN Ok(seq)
    ELSE IF Strategy(o) \in {"mtime", "ctime", "size"} /\ KeyStatFails(f, seq)
    THEN Raise("OSError")
    ELSE LET sorted_items == ApplyStrategy(Strategy(o), seq)
             reversed == IF o.r THEN Reverse(sorted_items) ELSE sorted_items
         IN  Ok(IF o.dirsfirst /\ ~o.U THEN dirs_first(reversed) ELSE reversed)


-----------------------------------------------------------------------------
(* TraversalEngine.                                                          *)

get_st_size(path, o) == IF o.s THEN {Size(path)} ELSE {}

\* The stat attributes are kept as far as the size: an attribute is a set,
\* empty when the attribute was not requested (None).
fill_stat(f, node, o) ==
    IF node.type \notin {"file", "directory"} THEN node
    ELSE IF StatFails(f, node.path)
    THEN [errs_dict(node.path) EXCEPT
              !.contents = <<err_dict("TreePermissionError")>>]
    ELSE IF node.type = "file"
    THEN [type |-> "file", path |-> node.path,
          size |-> get_st_size(node.path, o)]
    ELSE [type |-> "directory", path |-> node.path, contents |-> node.contents,
          size |-> get_st_size(node.path, o)]

\* sorted(path.iterdir()): the entries of one directory in the order of
\* their names, compared by code point.
PathLess(p, q) == StrLess(Name(p), Name(q))

SetToSeq(S) == CHOOSE sq \in [1..Cardinality(S) -> S] :
                   \A x \in S : \E k \in 1..Cardinality(S) : sq[k] = x

iterdir_sorted(path) ==
    LET sq == SetToSeq(Children(path))
    IN  StableSort(sq, [j \in DOMAIN sq |->
                          [k \in DOMAIN sq |-> PathLess(sq[j], sq[k])]])

\* depth_limited with the comparison off by one.
depth_limited_OffByOne(o, level) == o.L # 0 /\ level > o.L

\* if ns.L and level >= int(ns.L)
depth_limited(o, level) == o.L # 0 /\ level >= o.L

\* over_filelimit with the comparison off by one.
over_filelimit_OffByOne(o, count) == o.filelimit # 0 /\ count > o.filelimit + 1

\* if ns.filelimit and len(subpaths) > int(ns.filelimit)
over_filelimit(o, count) == o.filelimit # 0 /\ count > o.filelimit

\* What a call of tree_dir gives: the exception it raises or the nodes it
\* returns (none for [] and one otherwise), with the calls of tree_dir made
\* and the calls of iterdir() made, each as <<path, level>>.
Result(e, v, vis, lst) == [exc |-> e, val |-> v, visited |-> vis, listed |-> lst]

RECURSIVE tree_dir(_, _, _, _)
RECURSIVE walk_subpaths(_, _, _, _)

\* The for loop of tree_dir over subpaths: an exception ends it.
walk_subpaths(f, subpaths, o, level) ==
    IF subpaths = <<>> THEN Result("none", <<>>, {}, {})
    ELSE LET child == tree_dir(f, Head(subpaths), o, level)
         IN  IF child.exc # "none" THEN child
             ELSE LET rest == walk_subpaths(f, Tail(subpaths), o, level)
                  IN  Result(rest.exc,
                             IF rest.exc = "none" THEN child.val \o rest.val
                             ELSE <<>>,
                             child.visited \cup rest.visited,
                             child.listed \cup rest.listed)

tree_dir(f, path, o, level) ==
    IF is_file(path)
    THEN IF ~filter_item(file_dict(path), o)
         THEN Result("none", <<>>, {<<path, level>>}, {})
         ELSE Result("none", <<fill_stat(f, file_dict(path), o)>>,
                     {<<path, level>>}, {})
    ELSE IF ~filter_item(dir_dict(path), o)
    THEN Result("none", <<>>, {<<path, level>>}, {})
    ELSE LET dir_node == fill_stat(f, dir_dict(path), o)
         IN  IF depth_limited(o, level)
             THEN Result("none", <<dir_node>>, {<<path, level>>}, {})
             ELSE IF ListFails(f, path)
             THEN Result("none",
                         <<[dir_node EXCEPT !.contents =
                              <<[errs_dict(path) EXCEPT !.contents =
                                   <<err_dict("TreePermissionError")>>]>>]>>,
                         {<<path, level>>}, {<<path, level>>})
             ELSE LET subpaths == iterdir_sorted(path)
                  IN  IF over_filelimit(o, Len(subpaths))
                      THEN Result("none",
                                  <<[dir_node EXCEPT !.contents =
                                       <<limit_err_dict(Len(subpaths))>>]>>,
                                  {<<path, level>>}, {<<path, level>>})
                      ELSE LET sub == walk_subpaths(f, subpaths, o, level + 1)
                               srt == sort_tree(f, sub.val, o)
                           IN  IF sub.exc # "none"
                               THEN Result(sub.exc, <<>>,
                                           {<<path, level>>} \cup sub.visited,
                                           {<<path, level>>} \cup sub.listed)
                               ELSE IF srt.exc # "none"
                               THEN Result(srt.exc, <<>>,
                                           {<<path, level>>} \cup sub.visited,
                                           {<<path, level>>} \cup sub.listed)
                               ELSE Result("none",
                                           <<[dir_node EXCEPT
                                                !.contents = srt.val]>>,
                                           {<<path, level>>} \cup sub.visited,
                                           {<<path, level>>} \cup sub.listed)

-----------------------------------------------------------------------------
(* Aggregator.                                                               *)

RECURSIVE count_nodes(_)
RECURSIVE count_children(_)

\* The loop of count_nodes over the contents of a directory node.
count_children(cs) ==
    IF cs = <<>> THEN <<0, 0>>
    ELSE LET rest == count_children(Tail(cs))
             c == IF "type" \in DOMAIN Head(cs) THEN count_nodes(Head(cs))
                  ELSE <<0, 0>>
         IN  <<c[1] + rest[1], c[2] + rest[2]>>

count_nodes(node) ==
    IF node.type = "file" THEN <<0, 1>>
    ELSE IF node.type = "directory"
    THEN LET c == count_children(node.contents) IN <<1 + c[1], c[2]>>
    ELSE <<0, 0>>

RECURSIVE count_roots(_)
\* The totals tree() accumulates over the root nodes.
count_roots(ns_) ==
    IF ns_ = <<>> THEN <<0, 0>>
    ELSE LET c == count_nodes(Head(ns_))
             rest == count_roots(Tail(ns_))
         IN  <<c[1] + rest[1], c[2] + rest[2]>>

report_node(ns_) ==
    [type |-> "report", directories |-> count_roots(ns_)[1],
     files |-> count_roots(ns_)[2]]

-----------------------------------------------------------------------------
(* The runs of tree(paths, ns).                                              *)

NoStr == <<>>

BaseOptions ==
    [a |-> FALSE, P |-> NoStr, I |-> NoStr, ignore_case |-> FALSE,
     matchdirs |-> FALSE, sort |-> "", U |-> FALSE, v |-> FALSE, t |-> FALSE,
     c |-> FALSE, r |-> FALSE, dirsfirst |-> FALSE, L |-> 0, R |-> FALSE,
     filelimit |-> 0, noreport |-> FALSE, s |-> FALSE]

WalkSortModes == {"", "mtime", "bogus"}

WalkOptions ==
    {[BaseOptions EXCEPT !.a = a, !.sort = m, !.L = l, !.R = rr,
                         !.filelimit = fl, !.noreport = nr] :
        a \in BOOLEAN, m \in WalkSortModes, l \in 0..MaxL, rr \in BOOLEAN,
        fl \in 0..MaxLimit, nr \in BOOLEAN}

\* The paths whose stat() may fail in a run, and the directories whose
\* iterdir() may.
StatFaulty == {2, 3, 8}

ListFaulty == {3, 7}

\* The faults of a run: at most MaxFaults failing stat() or iterdir() calls
\* on existing paths.
FsChoices ==
    {f \in [statFail : SUBSET StatFaulty, listFail : SUBSET ListFaulty] :
        Cardinality(f.statFail) + Cardinality(f.listFail) <= MaxFaults}

RootChoices == {1, 2, 7, 10}

RootSeqs == UNION {[1..n -> RootChoices] : n \in 0..MaxRoots}

PureIdle ==
    /\ s1 = <<>>
    /\ s2 = <<>>
    /\ item = file_dict(1)
    /\ tree_list = <<>>
    /\ res = <<>>

Init ==
    /\ fs \in FsChoices
    /\ ns \in WalkOptions
    /\ paths \in RootSeqs
    /\ pc = "walk"
    /\ i = 1
    /\ nodes = <<>>
    /\ visited = {}
    /\ listed = {}
    /\ raised = "none"
    /\ PureIdle

\* One turn of the loop of tree() over paths.
WalkRoot ==
    /\ pc = "walk"
    /\ i <= Len(paths)
    /\ LET node == tree_dir(fs, paths[i], ns, 0)
       IN  /\ visited' = visited \cup {<<i, c[1], c[2]>> : c \in node.visited}
           /\ listed' = listed \cup {<<i, c[1], c[2]>> : c \in node.listed}
           /\ IF node.exc # "none"
              THEN /\ pc' = "raised"
                   /\ raised' = node.exc
                   /\ UNCHANGED <<i, nodes>>
              ELSE /\ nodes' = nodes \o node.val
                   /\ i' = i + 1
                   /\ UNCHANGED <<pc, raised>>
    /\ UNCHANGED <<fs, ns, paths, s1, s2, item, tree_list, res>>

\* The end of tree(): the report is appended unless noreport is set.
Report ==
    /\ pc = "walk"
    /\ i > Len(paths)
    /\ nodes' = IF ns.noreport THEN nodes ELSE Append(nodes, report_node(nodes))
    /\ pc' = "done"
    /\ UNCHANGED <<fs, ns, paths, i, visited, listed, raised,
                   s1, s2, item, tree_list, res>>

Next == WalkRoot \/ Report

Spec == Init /\ [][Next]_vars


-----------------------------------------------------------------------------
(* VersionCompare: src/src/tree/gnu/strverscmp.py.  Positions count from 1.  *)

\* is_fractional without the test of the length.
is_fractional_AnyLength(sub) == Len(sub) > 0 /\ sub[1] = 48

\* is_fractional: len(sub) > 1 and sub.startswith('0')
is_fractional(sub) == Len(sub) > 1 /\ sub[1] = 48

RECURSIVE strverscmp_from(_, _, _, _)
\* The while loop of strverscmp from the positions p1 and p2 on.
strverscmp_from(a, b, p1, p2) ==
    IF ~(p1 <= Len(a) /\ p2 <= Len(b)) THEN Len(a) - Len(b)
    ELSE IF IsDigit(a[p1]) /\ IsDigit(b[p2])
    THEN LET end1 == RunEnd(a, p1, TRUE)
             end2 == RunEnd(b, p2, TRUE)
             sub1 == SubSeq(a, p1, end1 - 1)
             sub2 == SubSeq(b, p2, end2 - 1)
             num1 == IntOf(sub1)
             num2 == IntOf(sub2)
         IN  IF is_fractional(sub1) /\ ~is_fractional(sub2) THEN -1
             ELSE IF ~is_fractional(sub1) /\ is_fractional(sub2) THEN 1
             ELSE IF num1 # num2 THEN num1 - num2
             ELSE IF ~is_fractional(sub1) /\ ~is_fractional(sub2)
                     /\ Len(sub1) # Len(sub2)
             THEN Len(sub1) - Len(sub2)
             ELSE IF ~(~is_fractional(sub1) /\ ~is_fractional(sub2))
                     /\ Len(sub1) # Len(sub2)
             THEN Len(sub2) - Len(sub1)
             ELSE strverscmp_from(a, b, end1, end2)
    ELSE IF a[p1] # b[p2] THEN a[p1] - b[p2]
    ELSE strverscmp_from(a, b, p1 + 1, p2 + 1)

strverscmp(a, b) == strverscmp_from(a, b, 1, 1)

-----------------------------------------------------------------------------
(* Calls of the pure operations: strverscmp(s1, s2), filter_item(item, ns)   *)
(* and sort_tree(tree_list, ns), each on arguments drawn from bounded sets.  *)

WalkIdle ==
    /\ paths = <<>>
    /\ i = 1
    /\ nodes = <<>>
    /\ visited = {}
    /\ listed = {}
    /\ raised = "none"

NoFaults == [statFail |-> {}, listFail |-> {}]

\* '0', '1', '9', 'a'
Alphabet == {48, 49, 57, 97}

Strings == UNION {[1..n -> Alphabet] : n \in 0..MaxLen}

InitCmp ==
    /\ s1 \in Strings
    /\ s2 \in Strings
    /\ pc = "call"
    /\ res = <<>>
    /\ fs = NoFaults
    /\ ns = BaseOptions
    /\ item = file_dict(1)
    /\ tree_list = <<>>
    /\ WalkIdle

Compare ==
    /\ pc = "call"
    /\ res' = strverscmp(s1, s2)
    /\ pc' = "returned"
    /\ UNCHANGED <<fs, ns, paths, i, nodes, visited, listed, raised,
                   s1, s2, item, tree_list>>

SpecCmp == InitCmp /\ [][Compare]_vars

\* unset, "a", "b", "10"
Patterns == {NoStr, <<97>>, <<98>>, <<49, 48>>}

FilterOptions ==
    {[BaseOptions EXCEPT !.a = a, !.P = pp, !.I = ii, !.ignore_case = ic,
                         !.matchdirs = md] :
        a \in BOOLEAN, pp \in Patterns, ii \in Patterns, ic \in BOOLEAN,
        md \in BOOLEAN}

FilterItems ==
    {[type |-> ty, path |-> p] : ty \in {"file", "directory", "link"},
                                 p \in PathIds}

InitFilter ==
    /\ item \in FilterItems
    /\ ns \in FilterOptions
    /\ pc = "call"
    /\ res = <<>>
    /\ fs = NoFaults
    /\ s1 = <<>>
    /\ s2 = <<>>
    /\ tree_list = <<>>
    /\ WalkIdle

Filter ==
    /\ pc = "call"
    /\ res' = filter_item(item, ns)
    /\ pc' = "returned"
    /\ UNCHANGED <<fs, ns, paths, i, nodes, visited, listed, raised,
                   s1, s2, item, tree_list>>

SpecFilter == InitFilter /\ [][Filter]_vars

SortModes == {"", "name", "version", "mtime", "ctime", "size", "bogus"}

\* The paths of the siblings: B, a, a10, a2.
SiblingPaths == {2, 3, 5, 6}

\* The sibling lists of one directory: nodes of distinct paths.
SiblingLists(types) ==
    {sq \in UNION {[1..n -> [type : types, path : SiblingPaths]] :
                      n \in 0..MaxSiblings} :
        \A j, k \in 1..Len(sq) : sq[j].path = sq[k].path => j = k}

\* Lists of every kind of node under a few strategies, and lists of files
\* under every combination of the strategy options.
InitOrder ==
    /\ \/ /\ tree_list \in SiblingLists({"file", "directory", "link"})
          /\ ns \in {[BaseOptions EXCEPT !.sort = m, !.U = u, !.r = rv,
                                         !.dirsfirst = df] :
                        m \in {"", "version", "size"}, u \in BOOLEAN,
                        rv \in BOOLEAN, df \in BOOLEAN}
       \/ /\ tree_list \in SiblingLists({"file"})
          /\ ns \in {[BaseOptions EXCEPT !.sort = m, !.v = vv, !.t = tt,
                                         !.c = cc, !.U = u, !.r = rv,
                                         !.dirsfirst = df] :
                        m \in SortModes, vv \in BOOLEAN, tt \in BOOLEAN,
                        cc \in BOOLEAN, u \in BOOLEAN, rv \in BOOLEAN,
                        df \in BOOLEAN}
    /\ pc = "call"
    /\ res = <<>>
    /\ fs = NoFaults
    /\ s1 = <<>>
    /\ s2 = <<>>
    /\ item = file_dict(1)
    /\ WalkIdle

Order ==
    /\ pc = "call"
    /\ res' = sort_tree(fs, tree_list, ns)
    /\ pc' = "returned"
    /\ UNCHANGED <<fs, ns, paths, i, nodes, visited, listed, raised,
                   s1, s2, item, tree_list>>

SpecOrder == InitOrder /\ [][Order]_vars

-----------------------------------------------------------------------------
(* Reading a result.                                                         *)

RECURSIVE TypedUnder(_, _)
\* The nodes (the entries with a "type") of a sequence of entries and of
\* their contents, each with its level; lvl is the level of the sequence.
TypedUnder(seq, lvl) ==
    UNION {{[n |-> seq[k], lvl |-> lvl]} \cup
           (IF "contents" \in DOMAIN seq[k]
            THEN TypedUnder(seq[k].contents, lvl + 1) ELSE {}) :
           k \in {j \in 1..Len(seq) : "type" \in DOMAIN seq[j]}}

ResultNodes == TypedUnder(nodes, 0)

\* The node tree_dir built for a directory it went on to list: the
\* directory node, or the link node fill_stat put in its place.
IsListedDirNode(x) ==
    /\ x.n.type \in {"directory", "link"}
    /\ Kind(x.n.path) = "directory"
    /\ ~(ns.L # 0 /\ x.lvl >= ns.L)
    /\ ~ListFails(fs, x.n.path)

EntryCount(p) == Cardinality(Children(p))

OverLimit(p) == ns.filelimit # 0 /\ EntryCount(p) > ns.filelimit

ValidSort == ns.sort = "" \/ ns.sort \in possible_values

\* C1: with max-depth L set and full-rescan enabled, every directory at
\* level L of the result holds, after its empty depth-limited contents, the
\* full unlimited-depth subtree rooted at it.
C1_RescanAppendsFullSubtree ==
    (ns.L # 0 /\ ns.R) =>
        \A x \in ResultNodes :
            (x.n.type = "directory" /\ x.lvl = ns.L) =>
                LET full == tree_dir(fs, x.n.path, [ns EXCEPT !.L = 0], 0)
                IN  full.exc = "none" => x.n.contents = full.val[1].contents

\* C2: with max-depth L >= 1 set and full-rescan disabled, the result holds
\* no node at a level above L, every directory node at level L has empty
\* contents, and every directory node below level L was listed.
C2_DepthLimitBoundsResult ==
    (ns.L >= 1 /\ ~ns.R) =>
        \A x \in ResultNodes :
            /\ x.lvl <= ns.L
            /\ (x.n.type = "directory" /\ x.lvl = ns.L) => x.n.contents = <<>>
            /\ (x.n.type = "directory" /\ x.lvl < ns.L) =>
                   \E c \in listed : c[2] = x.n.path /\ c[3] = x.lvl

\* A finished walk with a directory node at level L that is unreadable and
\* over the file-limit, below a directory that was listed.
C2_Witness ==
    /\ pc = "done"
    /\ ns.L >= 1 /\ ~ns.R /\ ns.filelimit # 0
    /\ \E x \in ResultNodes :
          /\ x.n.type = "directory" /\ x.lvl = ns.L /\ x.lvl > 0
          /\ x.n.path \in fs.listFail
          /\ EntryCount(x.n.path) > ns.filelimit
          /\ x.n.contents = <<>>

C4_InvalidSortFailsFirst ==
    ~ValidSort =>
        /\ pc # "done"
        /\ nodes = <<>>
        /\ listed = {}
        /\ raised \in {"none", "TreeSortTypeError"}

\* C5: with valid options a filesystem access failure never aborts the walk.
C5_AccessFailureNeverAborts == ValidSort => pc # "raised"

\* C6: the counts of the report are the numbers of directory nodes and of
\* file nodes of the result, and the report is the last element exactly when
\* noreport is unset.
C6_ReportCountsAllNodes ==
    pc = "done" =>
        LET roots == IF ns.noreport THEN nodes
                     ELSE SubSeq(nodes, 1, Len(nodes) - 1)
            D == Cardinality({x \in TypedUnder(roots, 0) : x.n.type = "directory"})
            F == Cardinality({x \in TypedUnder(roots, 0) : x.n.type = "file"})
        IN  /\ count_roots(roots) = <<D, F>>
            /\ \A x \in TypedUnder(roots, 0) : x.n.type # "report"
            /\ ~ns.noreport =>
                   nodes[Len(nodes)] =
                       [type |-> "report", directories |-> D, files |-> F]

\* C8: an error-link node carries exactly one error payload and has no file,
\* directory or error-link descendant.
C8_ErrorLinkIsLeaf ==
    \A x \in ResultNodes :
        x.n.type = "link" =>
            /\ Len(x.n.contents) = 1
            /\ "type" \notin DOMAIN x.n.contents[1]
            /\ "error" \in DOMAIN x.n.contents[1]


-----------------------------------------------------------------------------
(* Claims about order(), visible() and strverscmp().                         *)

IsDir(x) == x.type = "directory"

IsFile(x) == x.type = "file"

NotDir(x) == x.type # "directory"

NotDirNorFile(x) == x.type \notin {"directory", "file"}

\* The order after the strategy-and-reverse step, before the partition.
PrePartition == sort_tree(fs, tree_list, [ns EXCEPT !.dirsfirst = FALSE]).val

DirsFirstCase ==
    pc = "returned" /\ ns.dirsfirst /\ ~ns.U /\ res.exc = "none"

Hidden(name, o) == ~o.a /\ Len(name) >= 1 /\ name[1] = 46
                   /\ name # <<46>> /\ name # <<46, 46>>

Participates(it, o) == it.type # "directory" \/ o.matchdirs

\* An unanchored search, folding the case of both sides under ignore-case.
Matches(pattern, name, o) ==
    LET fold(s) == IF o.ignore_case THEN Lower(s) ELSE s
    IN  \E from \in 1..(Len(name) + 1), to \in 0..Len(name) :
            SubSeq(fold(name), from, to) = fold(pattern)

\* C9: visible(node) is false exactly when the name is hidden, or the node
\* participates in the pattern rules and the exclude pattern is set and
\* matches or the include pattern is set and does not match.
C9_VisibleExactly ==
    pc = "returned" =>
        (res = FALSE <=>
            \/ Hidden(Name(item.path), ns)
            \/ /\ Participates(item, ns)
               /\ \/ ns.I # <<>> /\ Matches(ns.I, Name(item.path), ns)
                  \/ ns.P # <<>> /\ ~Matches(ns.P, Name(item.path), ns))

\* A directory that the exclude pattern matches is visible because
\* match-dirs is unset, and "." or ".." has passed the hidden rule.
C9_Witness ==
    /\ pc = "returned"
    /\ res = TRUE
    /\ ~ns.a
    /\ item.type = "directory"
    /\ Name(item.path) \in {<<46>>, <<46, 46>>}
    /\ ~ns.matchdirs
    /\ ns.P # <<>>
    /\ ~Matches(ns.P, Name(item.path), ns)

Sign(x) == IF x < 0 THEN -1 ELSE IF x > 0 THEN 1 ELSE 0

RECURSIVE LeadingDigits(_)
\* The maximal run of digits a string starts with.
LeadingDigits(s) ==
    IF s = <<>> \/ s[1] < 48 \/ s[1] > 57 THEN <<>>
    ELSE <<s[1]>> \o LeadingDigits(Tail(s))

RECURSIVE Pow10(_)
Pow10(n) == IF n = 0 THEN 1 ELSE 10 * Pow10(n - 1)

RECURSIVE NumValue(_)
\* The numeric value of a run of digits.
NumValue(run) ==
    IF run = <<>> THEN 0
    ELSE (run[1] - 48) * Pow10(Len(run) - 1) + NumValue(Tail(run))

Fractional(run) == Len(run) >= 2 /\ Head(run) = 48

Drop(s, n) == SubSeq(s, n + 1, Len(s))

RECURSIVE LockstepSign(_, _)
\* The sign the lockstep algorithm of the specification gives.
LockstepSign(a, b) ==
    IF a = <<>> \/ b = <<>>
    THEN IF Len(a) < Len(b) THEN -1 ELSE IF Len(a) > Len(b) THEN 1 ELSE 0
    ELSE IF LeadingDigits(a) # <<>> /\ LeadingDigits(b) # <<>>
    THEN LET ra == LeadingDigits(a)
             rb == LeadingDigits(b)
         IN  IF Fractional(ra) /\ ~Fractional(rb) THEN -1
             ELSE IF Fractional(rb) /\ ~Fractional(ra) THEN 1
             ELSE IF NumValue(ra) < NumValue(rb) THEN -1
             ELSE IF NumValue(ra) > NumValue(rb) THEN 1
             ELSE IF Len(ra) = Len(rb)
             THEN LockstepSign(Drop(a, Len(ra)), Drop(b, Len(rb)))
             ELSE IF Fractional(ra)
             THEN (IF Len(ra) < Len(rb) THEN 1 ELSE -1)
             ELSE (IF Len(ra) > Len(rb) THEN 1 ELSE -1)
    ELSE IF Head(a) < Head(b) THEN -1
    ELSE IF Head(a) > Head(b) THEN 1
    ELSE LockstepSign(Tail(a), Tail(b))

\* C10: the sign of strverscmp(s1, s2) is the sign of the lockstep
\* algorithm, the five test vectors have the stated signs, and
\* strverscmp(s2, s1) has the opposite sign.
C10_StrverscmpSign ==
    /\ pc = "returned" =>
          /\ Sign(res) = LockstepSign(s1, s2)
          /\ Sign(strverscmp(s2, s1)) = -Sign(res)
    /\ strverscmp(<<105, 109, 103, 50>>, <<105, 109, 103, 49, 48>>) < 0
    /\ strverscmp(<<102, 105, 108, 101, 48, 49>>, <<102, 105, 108, 101, 49>>) < 0
    /\ strverscmp(<<97, 98, 99>>, <<97, 98, 99>>) = 0
    /\ strverscmp(<<97>>, <<97, 98>>) < 0
    /\ strverscmp(<<49, 48, 97>>, <<57, 97>>) > 0

\* "a00" against "a0": a fractional run sorts before a run that is not.
C10_Witness ==
    /\ pc = "returned"
    /\ s1 = <<97, 48, 48>>
    /\ s2 = <<97, 48>>
    /\ res < 0

-----------------------------------------------------------------------------
(* The claim about the precedence of the strategies of order().              *)

\* The first match in the claimed precedence.
ClaimedStrategy(o) ==
    CASE o.U -> "unsorted"
      [] ~o.U /\ o.sort = "name" -> "name"
      [] ~o.U /\ o.sort # "name" /\ (o.v \/ o.sort = "version") -> "version"
      [] ~o.U /\ o.sort \notin {"name", "version"} /\ ~o.v
            /\ (o.t \/ o.sort = "mtime") -> "mtime"
      [] ~o.U /\ o.sort \notin {"name", "version", "mtime"} /\ ~o.v /\ ~o.t
            /\ (o.c \/ o.sort = "ctime") -> "ctime"
      [] ~o.U /\ o.sort = "size" /\ ~o.v /\ ~o.t /\ ~o.c -> "size"
      [] OTHER -> "name"

\* x comes strictly before y under a strategy: names without case, version
\* keys, times descending, sizes ascending.
Before(st, x, y) ==
    CASE st = "name" -> StrLess(Lower(Name(x.path)), Lower(Name(y.path)))
      [] st = "version" -> VersionKeyLess(version_key(x), version_key(y))
      [] st = "mtime" -> Mtime(y.path) < Mtime(x.path)
      [] st = "ctime" -> Ctime(y.path) < Ctime(x.path)
      [] OTHER -> Size(x.path) < Size(y.path)

RECURSIVE InsertStable(_, _, _)
\* x put into an ordered sequence behind every element it does not precede.
InsertStable(st, sq, x) ==
    IF sq = <<>> THEN <<x>>
    ELSE IF Before(st, x, Head(sq)) THEN <<x>> \o sq
    ELSE <<Head(sq)>> \o InsertStable(st, Tail(sq), x)

RECURSIVE InsertionSort(_, _)
\* The stable order of a sequence under a strategy, built from the left.
InsertionSort(st, sq) ==
    IF sq = <<>> THEN <<>>
    ELSE InsertStable(st, InsertionSort(st, SubSeq(sq, 1, Len(sq) - 1)),
                      sq[Len(sq)])

Backwards(sq) == IF sq = <<>> THEN <<>>
                 ELSE [k \in 1..Len(sq) |-> sq[Len(sq) - k + 1]]

Partitioned(sq) ==
    SelectSeq(sq, IsDir) \o SelectSeq(sq, IsFile) \o SelectSeq(sq, NotDirNorFile)

\* What the claim makes of a list: the input itself under unsorted, else the
\* strategy result, reversed as a whole if reverse is set, and partitioned
\* after that if dirs-first is set.
ClaimedOrder(sq, o) ==
    IF ClaimedStrategy(o) = "unsorted" THEN sq
    ELSE LET sorted == InsertionSort(ClaimedStrategy(o), sq)
             turned == IF o.r THEN Backwards(sorted) ELSE sorted
         IN  IF o.dirsfirst THEN Partitioned(turned) ELSE turned

\* C11: order() takes the first strategy in the precedence unsorted, name
\* mode, version, mtime (descending), ctime (descending), size (ascending),
\* else name; under unsorted the output is the input, and otherwise it is a
\* permutation of the input with reverse applied before the partition.
C11_StrategyPrecedence ==
    (pc = "returned" /\ res.exc = "none") =>
        /\ res.val = ClaimedOrder(tree_list, ns)
        /\ ns.U => res.val = tree_list
        /\ Len(res.val) = Len(tree_list)
        /\ {res.val[k] : k \in 1..Len(res.val)}
               = {tree_list[k] : k \in 1..Len(tree_list)}

\* The name mode has won over the version and mtime flags, and the reversed
\* name order puts a2 before a10 and B first.
C11_Witness ==
    /\ pc = "returned"
    /\ res.exc = "none"
    /\ ~ns.U /\ ns.sort = "name" /\ ns.v /\ ns.t /\ ns.r
    /\ tree_list = <<file_dict(5), file_dict(2), file_dict(6)>>
    /\ res.val = <<file_dict(2), file_dict(6), file_dict(5)>>

=============================================================================
